---- MODULE Spec2Model ----
(***************************************************************************)
(* FolderScope: the filesystem scanner (internal/infrastructure/filesystem *)
(* /scanner.go) as a state machine.  One Scan call walks a directory tree  *)
(* with filepath.WalkDir; every callback invocation is one step.           *)
(*                                                                         *)
(* Strings are sequences of byte values (46 = '.', 47 = '/', 42 = '*',     *)
(* 63 = '?', 91 = '[', 92 = '\', 93 = ']', 94 = '^', 45 = '-'), so that    *)
(* glob matching, path joining and separator counting are computed.        *)
(* The model is the Unix build of the program: filepath.Separator is '/'.  *)
(***************************************************************************)
EXTENDS Integers, Sequences, FiniteSets, TLC

VARIABLES
    fs,                     \* the directory tree on disk: node key -> node
    DefaultIgnorePatterns,  \* the package-level variable of scanner.go
    scanner,                \* the Scanner instance built by NewScanner
    ctx,                    \* the context passed to Scan: "live" or its Err()
    ctxAtCall,              \* what ctx was when Scan was called ("none" before)
    pc,                     \* position of the Scan call
    frames,                 \* WalkDir's pending callback invocations (a stack)
    cur,                    \* the callback invocation in flight on a file
    entries,                \* Scan's local slice `entries`
    werr,                   \* the error WalkDir returns
    result,                 \* what Scan returned
    events,                 \* history of this scan: visits, matches, opens, logs, emits
    tc,                     \* the caller's arguments to NewScanner and to Scan
    valid,                  \* what ValidateDirectoryPath returned for tc.rootPath
    prev,                   \* the outcome of the previous Scan on the same tree
    report,                 \* what WriteFileContents wrote for the scan's entries
    touched,                \* the files changed on disk since the scan returned
    mem,                    \* slices and their backing arrays (construction of scanners)
    calls                   \* Scan calls that run concurrently

vars == <<fs, DefaultIgnorePatterns, scanner, ctx, pc, frames, cur, entries,
          werr, result, events, tc, valid, ctxAtCall, prev, report, touched, mem, calls>>

(* The state that no step of a single scan changes. *)
beyondScan == <<report, touched, mem, calls>>

----------------------------------------------------------------------------
(* Bounds of the model. *)

MaxNodes == 3

MaxDepth == 2

(* Scanners constructed, and later changes of the default patterns. *)
MaxScanners == 2

MaxChanges == 2

(* Program constants. *)

DefaultBinaryCheckSize == 1024

(* const checkSize of the report generator *)
checkSize == 1024

Separator == 47

----------------------------------------------------------------------------
(* Strings. *)

Min(a, b) == IF a < b THEN a ELSE b

Front(s) == SubSeq(s, 1, Len(s) - 1)

Last(s) == s[Len(s)]

Contains(s, ch) == \E i \in 1..Len(s) : s[i] = ch

HasSuffix(s, suf) ==
    /\ Len(suf) <= Len(s)
    /\ SubSeq(s, Len(s) - Len(suf) + 1, Len(s)) = suf

TrimSuffix(s, suf) == IF HasSuffix(s, suf) THEN SubSeq(s, 1, Len(s) - Len(suf)) ELSE s

HasPrefix(s, pre) == Len(pre) <= Len(s) /\ SubSeq(s, 1, Len(pre)) = pre

Count(s, ch) == Cardinality({i \in 1..Len(s) : s[i] = ch})

ToSlash(p) == [i \in 1..Len(p) |-> IF p[i] = Separator THEN 47 ELSE p[i]]

----------------------------------------------------------------------------
(* filepath.Match, as the Go library computes it on non-Windows builds.     *)

ErrBadPattern == [rest |-> << >>, ok |-> FALSE, err |-> TRUE]

RECURSIVE StripStars(_)
StripStars(p) == IF Len(p) > 0 /\ Head(p) = 42 THEN StripStars(Tail(p)) ELSE p

RECURSIVE ChunkEnd(_, _, _)
ChunkEnd(p, i, inrange) ==
    IF i >= Len(p) THEN Len(p)
    ELSE LET c == p[i + 1] IN
         IF c = 92 THEN ChunkEnd(p, IF i + 1 < Len(p) THEN i + 2 ELSE i + 1, inrange)
         ELSE IF c = 91 THEN ChunkEnd(p, i + 1, TRUE)
         ELSE IF c = 93 THEN ChunkEnd(p, i + 1, FALSE)
         ELSE IF c = 42 /\ ~inrange THEN i
         ELSE ChunkEnd(p, i + 1, inrange)

scanChunk(pattern) ==
    LET q == StripStars(pattern)
        i == ChunkEnd(q, 0, FALSE)
    IN [star |-> Len(q) < Len(pattern),
        chunk |-> SubSeq(q, 1, i),
        rest |-> SubSeq(q, i + 1, Len(q))]

getEsc(chunk) ==
    IF Len(chunk) = 0 \/ Head(chunk) \in {45, 93}
    THEN [err |-> TRUE, r |-> 0, chunk |-> << >>]
    ELSE LET c1 == IF Head(chunk) = 92 THEN Tail(chunk) ELSE chunk IN
         IF Len(c1) <= 1
         THEN [err |-> TRUE, r |-> 0, chunk |-> << >>]
         ELSE [err |-> FALSE, r |-> Head(c1), chunk |-> Tail(c1)]

RECURSIVE parseRanges(_, _, _, _)
parseRanges(chunk, r, match, nrange) ==
    IF Len(chunk) > 0 /\ Head(chunk) = 93 /\ nrange > 0
    THEN [err |-> FALSE, match |-> match, chunk |-> Tail(chunk)]
    ELSE LET lo == getEsc(chunk) IN
         IF lo.err THEN [err |-> TRUE, match |-> FALSE, chunk |-> << >>]
         ELSE IF Head(lo.chunk) = 45
         THEN LET hi == getEsc(Tail(lo.chunk)) IN
              IF hi.err THEN [err |-> TRUE, match |-> FALSE, chunk |-> << >>]
              ELSE parseRanges(hi.chunk, r, match \/ (lo.r <= r /\ r <= hi.r), nrange + 1)
         ELSE parseRanges(lo.chunk, r, match \/ lo.r = r, nrange + 1)

RECURSIVE matchChunkLoop(_, _, _)
matchChunkLoop(chunk, s, failed0) ==
    IF Len(chunk) = 0
    THEN IF failed0 THEN [rest |-> << >>, ok |-> FALSE, err |-> FALSE]
                    ELSE [rest |-> s, ok |-> TRUE, err |-> FALSE]
    ELSE LET failed == failed0 \/ Len(s) = 0
             c == Head(chunk)
             s1 == IF failed THEN s ELSE Tail(s)
         IN
         IF c = 91
         THEN LET r == IF failed THEN 0 ELSE Head(s)
                  c1 == Tail(chunk)
                  negated == Len(c1) > 0 /\ Head(c1) = 94
                  cls == parseRanges(IF negated THEN Tail(c1) ELSE c1, r, FALSE, 0)
              IN IF cls.err THEN ErrBadPattern
                 ELSE matchChunkLoop(cls.chunk, s1, failed \/ (cls.match = negated))
         ELSE IF c = 63
         THEN matchChunkLoop(Tail(chunk), s1, failed \/ Head(s) = Separator)
         ELSE IF c = 92
         THEN IF Len(chunk) = 1 THEN ErrBadPattern
              ELSE matchChunkLoop(Tail(Tail(chunk)), s1, failed \/ chunk[2] # Head(s))
         ELSE matchChunkLoop(Tail(chunk), s1, failed \/ c # Head(s))

matchChunk(chunk, s) == matchChunkLoop(chunk, s, FALSE)

RECURSIVE StarSkip(_, _, _, _)
StarSkip(chunk, name, i, last) ==
    IF i >= Len(name) \/ name[i + 1] = Separator
    THEN [found |-> FALSE, err |-> FALSE, rest |-> << >>]
    ELSE LET m == matchChunk(chunk, SubSeq(name, i + 2, Len(name))) IN
         IF m.ok
         THEN IF last /\ Len(m.rest) > 0 THEN StarSkip(chunk, name, i + 1, last)
              ELSE [found |-> TRUE, err |-> FALSE, rest |-> m.rest]
         ELSE IF m.err THEN [found |-> FALSE, err |-> TRUE, rest |-> << >>]
         ELSE StarSkip(chunk, name, i + 1, last)

RECURSIVE RestBad(_)
RestBad(pattern) ==
    IF Len(pattern) = 0 THEN FALSE
    ELSE LET sc == scanChunk(pattern) IN
         matchChunk(sc.chunk, << >>).err \/ RestBad(sc.rest)

RECURSIVE Match(_, _)
Match(pattern, name) ==
    IF Len(pattern) = 0 THEN [matched |-> Len(name) = 0, err |-> FALSE]
    ELSE LET sc == scanChunk(pattern) IN
         IF sc.star /\ sc.chunk = << >>
         THEN [matched |-> ~Contains(name, Separator), err |-> FALSE]
         ELSE LET m == matchChunk(sc.chunk, name) IN
              IF m.ok /\ (Len(m.rest) = 0 \/ Len(sc.rest) > 0)
              THEN Match(sc.rest, m.rest)
              ELSE IF m.err THEN [matched |-> FALSE, err |-> TRUE]
              ELSE LET st == IF sc.star
                             THEN StarSkip(sc.chunk, name, 0, Len(sc.rest) = 0)
                             ELSE [found |-> FALSE, err |-> FALSE, rest |-> << >>]
                   IN IF st.found THEN Match(sc.rest, st.rest)
                      ELSE IF st.err THEN [matched |-> FALSE, err |-> TRUE]
                      ELSE [matched |-> FALSE, err |-> RestBad(sc.rest)]

----------------------------------------------------------------------------
(* The tree on disk.  A node key is the sequence of indices into Names of   *)
(* the base names from the root down; the root's key is << >>.  Names is    *)
(* in byte order, which is the order os.ReadDir lists a directory in.       *)

Names == <<
    <<46, 68, 83, 95, 83, 116, 111, 114, 101>>,          \* .DS_Store
    <<46, 103, 105, 116>>,                               \* .git
    <<46, 105, 100, 101, 97>>,                           \* .idea
    <<46, 118, 115, 99, 111, 100, 101>>,                 \* .vscode
    <<97, 46, 108, 111, 103>>,                           \* a.log
    <<97, 46, 108, 111, 103, 46, 116, 120, 116>>,        \* a.log.txt
    <<98, 117, 105, 108, 100>> >>                        \* build

RootName == <<114>>                                      \* r

AbsRoot == <<Separator>> \o RootName                     \* /r

NoData == [len |-> 0, at |-> 0, byte |-> 0]

Text == [len |-> 2, at |-> 0, byte |-> 65]

Bin == [len |-> 2, at |-> 1, byte |-> 0]

DirNode(io) == [type |-> "dir", io |-> io, data |-> NoData]

FileNode(io, data) == [type |-> "file", io |-> io, data |-> data]

Missing == [type |-> "missing", io |-> "ok", data |-> NoData]

(* A symbolic link to the node of key `target`, which may be an ancestor,  *)
(* the link itself or nothing on disk.                                     *)
LinkNode(target) == [type |-> "link", io |-> "ok", data |-> NoData, target |-> target]

(* What a system call that follows symbolic links finds at the node: the   *)
(* node at the end of the chain of links; a chain that ends nowhere or     *)
(* runs in a circle cannot be opened.                                      *)
RECURSIVE Follow(_, _)
Follow(key, seen) ==
    IF key \notin DOMAIN fs \/ fs[key].type = "missing" THEN FileNode("noOpen", NoData)
    ELSE IF fs[key].type = "link"
    THEN IF key \in seen THEN FileNode("noOpen", NoData)
         ELSE Follow(fs[key].target, seen \cup {key})
    ELSE fs[key]

Opened(key) == Follow(key, {})

(* The bytes of a file: 'A' everywhere but for one byte at offset `at`. *)
Content(d) == [i \in 1..d.len |-> IF i = d.at + 1 THEN d.byte ELSE 65]

Exists(key) == key \in DOMAIN fs /\ fs[key].type # "missing"

(* Mutant: the kind of a node is asked of the target of a symbolic link. *)
IsDir_FollowsLinks(key) == Opened(key).type = "dir"

IsDir(key) == fs[key].type = "dir"

Name(key) == IF key = << >> THEN RootName ELSE Names[Last(key)]

RECURSIVE PathOf(_)
PathOf(key) ==
    IF key = << >> THEN AbsRoot
    ELSE PathOf(Front(key)) \o <<Separator>> \o Names[Last(key)]

KeyOf(path) == CHOOSE k \in DOMAIN fs : PathOf(k) = path

IsUnder(key, anc) == Len(anc) < Len(key) /\ SubSeq(key, 1, Len(anc)) = anc

----------------------------------------------------------------------------
(* Paths.  The tree's root is the directory /r of a file system whose top   *)
(* directory / holds nothing else; the working directory of the process is  *)
(* /r.                                                                      *)

Cwd == AbsRoot

IsAbs(p) == p # << >> /\ p[1] = Separator

(* The components of p between separators. *)
RECURSIVE Split(_)
Split(p) ==
    IF ~Contains(p, Separator) THEN <<p>>
    ELSE LET i == CHOOSE i \in 1..Len(p) :
                      p[i] = Separator /\ \A j \in 1..(i - 1) : p[j] # Separator
         IN <<SubSeq(p, 1, i - 1)>> \o Split(SubSeq(p, i + 1, Len(p)))

RECURSIVE JoinParts(_)
JoinParts(parts) ==
    IF parts = << >> THEN << >>
    ELSE IF Len(parts) = 1 THEN parts[1]
    ELSE parts[1] \o <<Separator>> \o JoinParts(Tail(parts))

(* The components filepath.Clean keeps. *)
RECURSIVE CleanParts(_, _, _)
CleanParts(parts, out, rooted) ==
    IF parts = << >> THEN out
    ELSE LET c == Head(parts) IN
         IF c = << >> \/ c = <<46>> THEN CleanParts(Tail(parts), out, rooted)
         ELSE IF c = <<46, 46>>
         THEN IF out # << >> /\ Last(out) # <<46, 46>>
              THEN CleanParts(Tail(parts), Front(out), rooted)
              ELSE IF rooted THEN CleanParts(Tail(parts), out, rooted)
              ELSE CleanParts(Tail(parts), Append(out, c), rooted)
         ELSE CleanParts(Tail(parts), Append(out, c), rooted)

(* filepath.Clean *)
Clean(p) ==
    IF p = << >> THEN <<46>>
    ELSE LET out == CleanParts(Split(p), << >>, IsAbs(p)) IN
         IF IsAbs(p) THEN <<Separator>> \o JoinParts(out)
         ELSE IF out = << >> THEN <<46>>
         ELSE JoinParts(out)

(* filepath.Join of two elements *)
Join(a, b) ==
    IF b = << >> THEN Clean(a)
    ELSE IF a = << >> THEN Clean(b)
    ELSE Clean(a \o <<Separator>> \o b)

(* filepath.Abs; os.Getwd does not fail here. *)
Abs(path) == IF IsAbs(path) THEN Clean(path) ELSE Join(Cwd, path)

(* Path resolution by the operating system, one component at a time: a     *)
(* place is the top directory, a node of the tree or an error.             *)
Top == [at |-> "top", key |-> << >>, err |-> "nil"]

AtNode(key) == [at |-> "node", key |-> key, err |-> "nil"]

Fails(e) == [at |-> "err", key |-> << >>, err |-> e]

Lookup(loc, c) ==
    IF loc.at = "err" THEN loc
    ELSE IF loc.at = "node" /\ ~IsDir(loc.key) THEN Fails("ENOTDIR")
    ELSE IF c = << >> \/ c = <<46>> THEN loc
    ELSE IF c = <<46, 46>>
    THEN IF loc.at = "top" \/ loc.key = << >> THEN Top ELSE AtNode(Front(loc.key))
    ELSE IF loc.at = "top"
    THEN IF c = RootName /\ Exists(<< >>) THEN AtNode(<< >>) ELSE Fails("ENOENT")
    ELSE IF \E n \in 1..Len(Names) : Names[n] = c /\ Append(loc.key, n) \in DOMAIN fs
    THEN AtNode(Append(loc.key, CHOOSE n \in 1..Len(Names) : Names[n] = c))
    ELSE Fails("ENOENT")

RECURSIVE Resolve(_, _)
Resolve(loc, parts) ==
    IF parts = << >> THEN loc ELSE Resolve(Lookup(loc, Head(parts)), Tail(parts))

(* os.Stat: the error, and whether the path names a directory. *)
Stat(path) ==
    IF path = << >> THEN [err |-> "ENOENT", isDir |-> FALSE]
    ELSE IF Contains(path, 0) THEN [err |-> "EINVAL", isDir |-> FALSE]
    ELSE LET loc == Resolve(IF IsAbs(path) THEN Top ELSE AtNode(KeyOf(Cwd)), Split(path)) IN
         IF loc.at = "err" THEN [err |-> loc.err, isDir |-> FALSE]
         ELSE IF loc.at = "top" THEN [err |-> "nil", isDir |-> TRUE]
         ELSE IF fs[loc.key].io = "noStat" THEN [err |-> "EACCES", isDir |-> FALSE]
         ELSE [err |-> "nil", isDir |-> IsDir(loc.key)]

(* os.IsNotExist *)
IsNotExist(err) == err = "ENOENT"

----------------------------------------------------------------------------
(* filepath.WalkDir.  A pending callback invocation is a record: the node,  *)
(* whether it reports an error (walkErr # nil) and whether d is nil.        *)

Call(key, e, dn) == [key |-> key, werr |-> e, dnil |-> dn]

RECURSIVE ListFrom(_, _)
ListFrom(key, n) ==
    IF n > Len(Names) THEN << >>
    ELSE (IF Append(key, n) \in DOMAIN fs
          THEN <<Call(Append(key, n), FALSE, FALSE)>> ELSE << >>)
         \o ListFrom(key, n + 1)

ReadDir(key) ==
    IF fs[key].io = "noList" THEN [err |-> TRUE, dirs |-> << >>]
    ELSE [err |-> FALSE, dirs |-> ListFrom(key, 1)]

RECURSIVE DropEmpty(_)
DropEmpty(fr) ==
    IF fr = << >> THEN << >>
    ELSE IF Head(fr) = << >> THEN DropEmpty(Tail(fr))
    ELSE fr

WalkDirStart ==
    IF fs[<< >>].io = "noLstat" \/ ~Exists(<< >>)
    THEN << <<Call(<< >>, TRUE, TRUE)>> >>
    ELSE << <<Call(<< >>, FALSE, FALSE)>> >>

HasNext(fr) == fr # << >>

NextCall(fr) == Head(Head(fr))

(* The walker after the callback returned `ret` from the invocation at the  *)
(* top of the stack: the stack it goes on with and the error it ends with.  *)
WalkNext(fr, ret) ==
    LET c == NextCall(fr)
        rest == <<Tail(Head(fr))>> \o Tail(fr)
        dir == ~c.dnil /\ IsDir(c.key)
        go(f) == [frames |-> DropEmpty(f), werr |-> "nil"]
    IN
    IF ret \notin {"nil", "SkipDir"} THEN [frames |-> << >>, werr |-> ret]
    ELSE IF c.dnil THEN [frames |-> << >>, werr |-> "nil"]
    ELSE IF ret = "SkipDir" THEN IF dir THEN go(rest) ELSE go(Tail(fr))
    ELSE IF c.werr \/ ~dir THEN go(rest)
    ELSE LET rd == ReadDir(c.key) IN
         IF rd.err THEN go(<< <<Call(c.key, TRUE, FALSE)>> >> \o rest)
         ELSE go(<<rd.dirs>> \o rest)

----------------------------------------------------------------------------
(* The Scanner. *)

DefaultIgnorePatternsInit == <<
    <<46, 103, 105, 116>>,                               \* .git
    <<46, 68, 83, 95, 83, 116, 111, 114, 101>>,          \* .DS_Store
    <<46, 105, 100, 101, 97>>,                           \* .idea
    <<46, 118, 115, 99, 111, 100, 101>> >>               \* .vscode

(* Mutant: caller patterns replace the defaults instead of extending them. *)
NewScanner_Replaces(defaults, ignorePatterns, ignoreBinaryFiles) ==
    [binaryCheckSize |-> DefaultBinaryCheckSize,
     ignorePatterns |-> IF ignorePatterns = << >> THEN defaults ELSE ignorePatterns,
     ignoreBinaryFiles |-> ignoreBinaryFiles]

NewScanner(defaults, ignorePatterns, ignoreBinaryFiles) ==
    [binaryCheckSize |-> DefaultBinaryCheckSize,
     ignorePatterns |-> defaults \o ignorePatterns,
     ignoreBinaryFiles |-> ignoreBinaryFiles]

(* Slices.  The memory holds backing arrays; a slice is an array and a      *)
(* length, its capacity the length of the array.  mem.defaults is the      *)
(* package variable DefaultIgnorePatterns, mem.scanners the ignorePatterns *)
(* fields of the scanners constructed so far.                              *)
Cap(m, sl) == Len(m.arrays[sl.arr])

ListOf(m, sl) == SubSeq(m.arrays[sl.arr], 1, sl.len)

(* append(sl, xs...): in place when the capacity suffices, which it does   *)
(* whenever xs is empty; otherwise into a new array of twice the capacity  *)
(* or of the length needed, whichever is more.                             *)
append(m, sl, xs) ==
    LET need == sl.len + Len(xs)
        old == m.arrays[sl.arr]
    IN
    IF need <= Cap(m, sl)
    THEN [arrays |-> [m.arrays EXCEPT ![sl.arr] =
                         [j \in 1..Len(old) |->
                             IF sl.len < j /\ j <= need THEN xs[j - sl.len] ELSE old[j]]],
          slice |-> [arr |-> sl.arr, len |-> need]]
    ELSE LET newcap == IF need > 2 * Cap(m, sl) THEN need ELSE 2 * Cap(m, sl)
             new == [j \in 1..newcap |->
                        IF j <= sl.len THEN old[j]
                        ELSE IF j <= need THEN xs[j - sl.len] ELSE << >>]
         IN [arrays |-> Append(m.arrays, new),
             slice |-> [arr |-> Len(m.arrays) + 1, len |-> need]]

(* Mutant: the check that the path is a directory is left out. *)
ValidateDirectoryPath_NoDirCheck(path) ==
    IF path = << >> THEN "EmptyPath"
    ELSE LET st == Stat(path) IN
         IF st.err # "nil" THEN "NotFound"
         ELSE IF Contains(path, 0) THEN "UnsafePath"
         ELSE "nil"

ValidateDirectoryPath(path) ==
    IF path = << >> THEN "EmptyPath"
    ELSE LET st == Stat(path) IN
         IF st.err # "nil" THEN "NotFound"
         ELSE IF ~st.isDir THEN "NotADirectory"
         ELSE IF Contains(path, 0) THEN "UnsafePath"
         ELSE "nil"

(* Mutant: the loop stops one byte short of the limit. *)
isBinaryFile_OffByOne(s, content) ==
    LET limit == Min(Len(content), s.binaryCheckSize) IN
    IF Len(content) = 0 THEN FALSE
    ELSE \E i \in 1..(limit - 1) : content[i] = 0

isBinaryFile(s, content) ==
    LET limit == Min(Len(content), s.binaryCheckSize) IN
    IF Len(content) = 0 THEN FALSE
    ELSE \E i \in 1..limit : content[i] = 0

(* Mutant: a pattern with a trailing separator matches files as well. *)
RECURSIVE matchLoop_NoDirCheck(_, _, _, _)
matchLoop_NoDirCheck(patterns, name, isdir, bad) ==
    IF patterns = << >> THEN [ignored |-> FALSE, bad |-> bad]
    ELSE LET pattern == Head(patterns) IN
         IF HasSuffix(pattern, <<Separator>>)
         THEN IF TrimSuffix(pattern, <<Separator>>) = name
              THEN [ignored |-> TRUE, bad |-> bad]
              ELSE matchLoop_NoDirCheck(Tail(patterns), name, isdir, bad)
         ELSE LET m == Match(pattern, name) IN
              IF m.err THEN matchLoop_NoDirCheck(Tail(patterns), name, isdir,
                                                 Append(bad, pattern))
              ELSE IF m.matched THEN [ignored |-> TRUE, bad |-> bad]
              ELSE matchLoop_NoDirCheck(Tail(patterns), name, isdir, bad)

(* Mutant: a malformed pattern ends the evaluation. *)
RECURSIVE matchLoop_StopsAtBad(_, _, _, _)
matchLoop_StopsAtBad(patterns, name, isdir, bad) ==
    IF patterns = << >> THEN [ignored |-> FALSE, bad |-> bad]
    ELSE LET pattern == Head(patterns) IN
         IF HasSuffix(pattern, <<Separator>>)
         THEN IF isdir /\ TrimSuffix(pattern, <<Separator>>) = name
              THEN [ignored |-> TRUE, bad |-> bad]
              ELSE matchLoop_StopsAtBad(Tail(patterns), name, isdir, bad)
         ELSE LET m == Match(pattern, name) IN
              IF m.err THEN [ignored |-> FALSE, bad |-> Append(bad, pattern)]
              ELSE IF m.matched THEN [ignored |-> TRUE, bad |-> bad]
              ELSE matchLoop_StopsAtBad(Tail(patterns), name, isdir, bad)

(* matchesIgnorePattern: the verdict and the patterns that were logged as   *)
(* malformed on the way to it.                                              *)
RECURSIVE matchLoop(_, _, _, _)
matchLoop(patterns, name, isdir, bad) ==
    IF patterns = << >> THEN [ignored |-> FALSE, bad |-> bad]
    ELSE LET pattern == Head(patterns) IN
         IF HasSuffix(pattern, <<Separator>>)
         THEN IF isdir /\ TrimSuffix(pattern, <<Separator>>) = name
              THEN [ignored |-> TRUE, bad |-> bad]
              ELSE matchLoop(Tail(patterns), name, isdir, bad)
         ELSE LET m == Match(pattern, name) IN
              IF m.err THEN matchLoop(Tail(patterns), name, isdir, Append(bad, pattern))
              ELSE IF m.matched THEN [ignored |-> TRUE, bad |-> bad]
              ELSE matchLoop(Tail(patterns), name, isdir, bad)

matchesIgnorePattern(s, key) == matchLoop(s.ignorePatterns, Name(key), IsDir(key), << >>)

(* Mutant: the walk starts without a look at the root. *)
RootCheck_Skipped(absRootDir) == "nil"

(* Mutant: a root that is no directory is walked all the same. *)
RootCheck_NoDirCheck(absRootDir) ==
    LET info == Stat(absRootDir) IN
    IF info.err # "nil"
    THEN IF IsNotExist(info.err) THEN "RootNotFound" ELSE "RootStatError"
    ELSE "nil"

(* Scan's check of the resolved root before the walk. *)
RootCheck(absRootDir) ==
    LET info == Stat(absRootDir) IN
    IF info.err # "nil"
    THEN IF IsNotExist(info.err) THEN "RootNotFound" ELSE "RootStatError"
    ELSE IF ~info.isDir THEN "RootNotADirectory"
    ELSE "nil"

(* Mutant: the context is never polled. *)
Done_Never(c) == FALSE

(* case <-ctx.Done() *)
Done(c) == c # "live"

(* Mutant: an invocation that reports an error is handled like any other. *)
IsWalkErr_Never(c) == FALSE

(* walkErr != nil *)
IsWalkErr(c) == c.werr

(* Mutant: the root is handled like any other node. *)
IsRoot_Never(path, absRootDir) == FALSE

(* path == absRootDir *)
IsRoot(path, absRootDir) == path = absRootDir

(* Mutant: every node is opened and classified. *)
IsFile_Always(key) == TRUE

(* !d.IsDir() *)
IsFile(key) == ~IsDir(key)

(* filepath.Rel for a target at or below the base, the only targets the     *)
(* walker produces; any other pair is reported as an error here.            *)
Rel(base, targ) ==
    IF targ = base THEN [err |-> FALSE, path |-> <<46>>]
    ELSE IF HasPrefix(targ, base \o <<Separator>>)
    THEN [err |-> FALSE, path |-> SubSeq(targ, Len(base) + 2, Len(targ))]
    ELSE [err |-> TRUE, path |-> << >>]

(* Mutant: depth counted from 1. *)
Entry_DepthFromOne(key, relPath) ==
    [Path |-> PathOf(key), IsDir |-> IsDir(key), RelPath |-> relPath,
     Depth |-> Count(relPath, 47) + 1, IsBinary |-> FALSE, ReadErr |-> "nil"]

Entry(key, relPath) ==
    [Path |-> PathOf(key), IsDir |-> IsDir(key), RelPath |-> relPath,
     Depth |-> Count(relPath, 47), IsBinary |-> FALSE, ReadErr |-> "nil"]

(* Mutant: a cancelled visit returns nil to the walker. *)
CtxErr_Nil(c) == "nil"

(* return ctx.Err() *)
CtxErr(c) == c

(* Mutant: the callback hands walkErr back to the walker. *)
AccessErrorReturn_Propagates(c) == "walkErr"

(* What the callback returns on an invocation that reports walkErr. *)
AccessErrorReturn(c) == IF ~c.dnil /\ IsDir(c.key) THEN "SkipDir" ELSE "nil"

(* Mutant: SkipDir is returned for an ignored file as well. *)
IgnoredReturn_AlwaysSkip(key) == "SkipDir"

(* Mutant: an ignored directory is not skipped. *)
IgnoredReturn_NoSkip(key) == "nil"

(* What the callback returns for a node that matches an ignore pattern. *)
IgnoredReturn(key) == IF IsDir(key) THEN "SkipDir" ELSE "nil"

(* Mutant: the error is logged but not recorded on the entry. *)
MarkReadErr_Forgets(entry, err) == entry

(* entry.ReadErr = openErr, entry.ReadErr = readErr *)
MarkReadErr(entry, err) == [entry EXCEPT !.ReadErr = err]

(* Mutant: the whole file is read. *)
ReadPrefix_WholeFile(s, bytes) == bytes

(* buffer[:n] after one file.Read into a buffer of binaryCheckSize bytes. *)
ReadPrefix(s, bytes) == SubSeq(bytes, 1, Min(Len(bytes), s.binaryCheckSize))

(* The classification of an entry whose prefix was read. *)
Classified(s, entry, fileContent) ==
    IF entry.ReadErr = "nil"
    THEN [entry EXCEPT !.IsBinary = isBinaryFile(s, fileContent)]
    ELSE entry

(* Mutant: binary files are never left out. *)
SkipBinary_Never(s, entry) == FALSE

(* Whether a classified file is left out of the result. *)
SkipBinary(s, entry) == s.ignoreBinaryFiles /\ entry.IsBinary

(* Mutant: the file is never closed. *)
DeferredClose_Leaks(c) == << >>

(* defer file.Close(): what runs when the callback returns, c being the    *)
(* callback's locals.                                                      *)
DeferredClose(c) == IF c.handle THEN <<[ev |-> "close", key |-> c.key, level |-> ""]>> ELSE << >>

(* Mutant: only context.Canceled is recognised as a cancellation. *)
ScanResult_OnlyCanceled(err, es) ==
    IF err # "nil" /\ err # "SkipDir"
    THEN IF err = "Canceled"
         THEN [entries |-> << >>, err |-> err, cause |-> "nil"]
         ELSE [entries |-> << >>, err |-> "TraversalError", cause |-> err]
    ELSE [entries |-> es, err |-> "nil", cause |-> "nil"]

(* Mutant: the entries collected so far are returned with the error. *)
ScanResult_KeepsEntries(err, es) ==
    IF err # "nil" /\ err # "SkipDir"
    THEN IF err = "Canceled" \/ err = "DeadlineExceeded"
         THEN [entries |-> es, err |-> err, cause |-> "nil"]
         ELSE [entries |-> es, err |-> "TraversalError", cause |-> err]
    ELSE [entries |-> es, err |-> "nil", cause |-> "nil"]

(* Mutant: the cause is formatted into the message, not wrapped. *)
ScanResult_NoWrap(err, es) ==
    IF err # "nil" /\ err # "SkipDir"
    THEN IF err = "Canceled" \/ err = "DeadlineExceeded"
         THEN [entries |-> << >>, err |-> err, cause |-> "nil"]
         ELSE [entries |-> << >>, err |-> "TraversalError", cause |-> "nil"]
    ELSE [entries |-> es, err |-> "nil", cause |-> "nil"]

(* What Scan returns once WalkDir has returned err: the entries, the error *)
(* and the error it wraps.                                                 *)
ScanResult(err, es) ==
    IF err # "nil" /\ err # "SkipDir"
    THEN IF err = "Canceled" \/ err = "DeadlineExceeded"
         THEN [entries |-> << >>, err |-> err, cause |-> "nil"]
         ELSE [entries |-> << >>, err |-> "TraversalError", cause |-> err]
    ELSE [entries |-> es, err |-> "nil", cause |-> "nil"]

----------------------------------------------------------------------------
(* The report generator. *)

(* isBinaryFile of package report *)
report_isBinaryFile(content) ==
    LET limit == Min(Len(content), checkSize) IN
    \E i \in 1..limit :
        content[i] = 0 \/ (content[i] < 9 /\ content[i] # 10 /\ content[i] # 13)

(* os.ReadFile, which follows symbolic links and fails on a directory. *)
ReadFile(path) ==
    LET n == Opened(KeyOf(path)) IN
    IF n.io \in {"noOpen", "noRead"} \/ n.type # "file"
    THEN [err |-> TRUE, content |-> << >>]
    ELSE [err |-> FALSE, content |-> Content(n.data)]

(* What one turn of the loop of WriteFileContents writes for a file entry: *)
(* the header with the relative path and then the read error, the binary   *)
(* placeholder or the content.                                             *)
Section(entry) ==
    LET r == ReadFile(entry.Path) IN
    IF r.err THEN [relPath |-> entry.RelPath, kind |-> "error", content |-> << >>]
    ELSE IF report_isBinaryFile(r.content)
    THEN [relPath |-> entry.RelPath, kind |-> "binary", content |-> << >>]
    ELSE [relPath |-> entry.RelPath, kind |-> "content", content |-> r.content]

(* The sections WriteFileContents writes for the entries, in order. *)
RECURSIVE Sections(_)
Sections(es) ==
    IF es = << >> THEN << >>
    ELSE (IF Head(es).IsDir THEN << >> ELSE <<Section(Head(es))>>) \o Sections(Tail(es))

----------------------------------------------------------------------------
(* The inputs: trees, caller patterns. *)

RECURSIVE KeysOver(_, _)
KeysOver(idx, d) ==
    IF d = 0 THEN {<< >>}
    ELSE LET up == KeysOver(idx, d - 1) IN
         up \cup {Append(k, n) : k \in {q \in up : Len(q) = d - 1}, n \in idx}

(* The sets of at most n keys, none the root, closed under parent. *)
RECURSIVE Shapes(_, _, _)
Shapes(idx, n, d) ==
    IF n = 0 THEN {{}}
    ELSE LET less == Shapes(idx, n - 1, d)
             ext(S) == {k \in KeysOver(idx, d) \ (S \cup {<< >>}) :
                           Len(k) = 1 \/ Front(k) \in S}
         IN less \cup UNION {{S \cup {k} : k \in ext(S)} : S \in less}

HasChild(S, k) == \E c \in S : Len(c) = Len(k) + 1 /\ Front(c) = k

Trees(S, fileNodes, roots) ==
    LET nodes == {DirNode("ok"), DirNode("noList")} \cup fileNodes
        fill == {f \in [S -> nodes] : \A k \in S : HasChild(S, k) => f[k].type = "dir"}
    IN {[k \in S \cup {<< >>} |-> IF k = << >> THEN r ELSE f[k]] : f \in fill, r \in roots}

BasicFiles == {FileNode("ok", Text), FileNode("ok", Bin),
               FileNode("noOpen", Bin), FileNode("noRead", Bin)}

OkRoot == {DirNode("ok")}

OddRoots == {DirNode("noList"), DirNode("noLstat"), DirNode("noStat"),
             FileNode("ok", Text), Missing}

(* File contents around the classification window. *)
RichData ==
    {d \in [len : {0, 1, DefaultBinaryCheckSize - 1, DefaultBinaryCheckSize,
                   DefaultBinaryCheckSize + 2},
            at : {0, DefaultBinaryCheckSize - 2, DefaultBinaryCheckSize - 1,
                  DefaultBinaryCheckSize, DefaultBinaryCheckSize + 1},
            byte : {0, 1, 10, 65}] :
        \/ d.at < d.len /\ d.byte # 65
        \/ d.at = 0 /\ d.byte = 65}

RichFiles == {FileNode("ok", d) : d \in RichData}

(* Contents that reach the end of the classification window or pass it, to *)
(* set side by side in one tree.                                           *)
PairFiles ==
    {f \in RichFiles : /\ f.data.len >= DefaultBinaryCheckSize
                       /\ f.data.byte \in {0, 65}
                       /\ f.data.at # DefaultBinaryCheckSize - 2}

Lst(a) == <<a>>

PlainLists == {
    << >>,
    << <<91>>, <<42, 46, 108, 111, 103>>,                \* [  *.log
       <<98, 117, 105, 108, 100, 47>> >> }               \* build/

RichLists == {
    Lst(<<98, 117, 105, 108, 100, 47>>),                 \* build/
    Lst(<<98, 42, 47>>),                                 \* b*/
    Lst(<<42, 47>>),                                     \* */
    Lst(<<97, 46, 108, 111, 103, 47>>),                  \* a.log/
    Lst(<<42, 46, 108, 111, 103>>),                      \* *.log
    Lst(<<63, 46, 108, 111, 103>>),                      \* ?.log
    Lst(<<97, 42, 116>>),                                \* a*t
    Lst(<<91, 97, 45, 99, 93, 42>>),                     \* [a-c]*
    Lst(<<91, 94, 97, 93, 42>>),                         \* [^a]*
    Lst(<<92, 98, 117, 105, 108, 100>>),                 \* \build
    Lst(<<91>>),                                         \* [
    << <<97, 91>>, <<98, 42>> >>,                        \* a[  b*
    << <<98, 42>>, <<97, 91>> >> }                       \* b*  a[

(* The trees and caller patterns a behaviour starts from: trees of up to    *)
(* MaxNodes nodes over two pairs of names; roots that are missing,          *)
(* unreadable or no directory; nodes of every default name below an         *)
(* ordinary directory; and one node under each of a range of patterns and   *)
(* of contents.                                                             *)
Start(T, L) ==
    \E t \in T, l \in L :
        /\ fs = t
        /\ tc = [rootPath |-> AbsRoot, ignorePatterns |-> l, ignoreBinaryFiles |-> FALSE]

(* Root arguments: the root named absolutely, relatively and in forms that *)
(* are not clean, names of nothing, and paths with a null byte.            *)
RootPaths == {
    AbsRoot,                                             \* /r
    << >>,                                               \* the empty path
    <<46>>,                                              \* .
    <<46, 47>>,                                          \* ./
    <<47, 114, 47>>,                                     \* /r/
    <<47, 47, 114>>,                                     \* //r
    <<47, 114, 47, 46>>,                                 \* /r/.
    <<47, 114, 47, 120, 47, 46, 46>>,                    \* /r/x/..
    <<46, 46, 47, 114>>,                                 \* ../r
    <<47, 120>>,                                         \* /x
    <<120>>,                                             \* x
    <<47, 114, 0>>,                                      \* /r\0
    <<0>>,                                               \* \0
    <<47, 114, 47, 0>>,                                  \* /r/\0
    <<47, 114, 47, 97, 46, 108, 111, 103, 47, 120>> }    \* /r/a.log/x

(* Symbolic links: to the root (an ancestor of every node), to the nodes   *)
(* a.log and build of the root, which may be the link itself, another link *)
(* or nothing.                                                             *)
Links == {LinkNode(<< >>), LinkNode(<<5>>), LinkNode(<<7>>)}

(* A relative path needs the working directory /r to be a directory. *)
StartAt(T, P) ==
    \E t \in T, p \in P :
        /\ IsAbs(p) \/ t[<< >>].type = "dir"
        /\ fs = t
        /\ tc = [rootPath |-> p, ignorePatterns |-> << >>, ignoreBinaryFiles |-> FALSE]

(* Trees to report on: files that are text, binary or unreadable, and one  *)
(* file of each content around the classification window.                  *)
ReportInputs ==
    \/ \E S \in Shapes({5, 7}, 2, 2) : Start(Trees(S, BasicFiles, OkRoot), {<< >>})
    \/ \E S \in Shapes({7}, 1, 1) : Start(Trees(S, RichFiles, OkRoot), {<< >>})

(* Trees of one or two nodes with symbolic links among them. *)
LinkInputs ==
    \E S \in Shapes({5, 7}, 2, 2) :
        Start(Trees(S, {FileNode("ok", Text), FileNode("ok", Bin)} \cup Links, OkRoot),
              {<< >>})

Inputs ==
    \/ \E S \in Shapes({5, 7}, MaxNodes, MaxDepth) \cup Shapes({2, 7}, MaxNodes, MaxDepth) :
          Start(Trees(S, BasicFiles, OkRoot), PlainLists)
    \/ \E S \in Shapes({5}, 1, 1) : Start(Trees(S, BasicFiles, OddRoots), {<< >>})
    \/ \E S \in Shapes({1, 2, 3, 4, 6}, MaxNodes - 1, MaxDepth) :
          Start(Trees(S, {FileNode("ok", Text)}, OkRoot), PlainLists)
    \/ \E S \in Shapes(1..Len(Names), 1, 1) :
          Start(Trees(S, {FileNode("ok", Text)}, OkRoot), RichLists)
    \/ \E S \in Shapes({7}, 1, 1) : Start(Trees(S, RichFiles, OkRoot), {<< >>})
    \/ \E S \in Shapes({5, 7}, MaxNodes - 1, 1) :
          Start(Trees(S, PairFiles, OkRoot), {<< >>})
    \/ LinkInputs
    \/ \E S \in Shapes({5}, 1, 1) :
          StartAt(Trees(S, BasicFiles, OkRoot \cup OddRoots), RootPaths)

----------------------------------------------------------------------------
(* State. *)

NoCur == [key |-> << >>, entry |-> Entry(<< >>, << >>), handle |-> FALSE,
          fileContent |-> << >>]

NoResult == [entries |-> << >>, err |-> "none", cause |-> "nil"]

NoReport == [written |-> FALSE, sections |-> << >>]

(* var DefaultIgnorePatterns = []string{...}: a slice that fills its array. *)
MemInit ==
    [arrays |-> <<DefaultIgnorePatternsInit>>,
     defaults |-> [arr |-> 1, len |-> Len(DefaultIgnorePatternsInit)],
     scanners |-> << >>,
     changes |-> 0]

Ev(e, key) == [ev |-> e, key |-> key, level |-> ""]

Log(level, key) == [ev |-> "log", key |-> key, level |-> level]

Fresh ==
    /\ DefaultIgnorePatterns = DefaultIgnorePatternsInit
    /\ scanner = NewScanner(DefaultIgnorePatternsInit, tc.ignorePatterns, tc.ignoreBinaryFiles)
    /\ valid = "none"
    /\ ctx = "live"
    /\ ctxAtCall = "none"
    /\ pc = "validate"
    /\ frames = << >>
    /\ cur = NoCur
    /\ entries = << >>
    /\ werr = "nil"
    /\ result = NoResult
    /\ events = << >>
    /\ prev = << >>
    /\ report = NoReport
    /\ touched = {}
    /\ mem = MemInit
    /\ calls = << >>

Init == Inputs /\ Fresh

(* Trees with directories to scan side by side. *)
InitConc ==
    /\ \E S \in Shapes({5, 7}, 3, 2) :
          Start(Trees(S, {FileNode("ok", Text), FileNode("ok", Bin), FileNode("noRead", Bin)},
                      OkRoot), {<< >>})
    /\ Fresh

(* One tree, for the program that only constructs scanners. *)
InitCtor ==
    /\ \E S \in Shapes({5}, 1, 1) : Start(Trees(S, {FileNode("ok", Text)}, OkRoot), {<< >>})
    /\ Fresh

(* The scans that a report follows. *)
InitReport == ReportInputs /\ Fresh

(* The scans of trees with symbolic links. *)
InitLinks == LinkInputs /\ Fresh

(* The callback returns ret to the walker. *)
Returns(ret) ==
    LET w == WalkNext(frames, ret) IN
    /\ frames' = w.frames
    /\ werr' = w.werr
    /\ pc' = "walk"
    /\ cur' = NoCur

(* Scan, up to the call of filepath.WalkDir. *)
Scan ==
    /\ pc = "scan"
    /\ entries' = << >>
    /\ \E absRootDir \in {Abs(tc.rootPath)} : \E err \in {RootCheck(absRootDir)} :
       IF err # "nil"
       THEN /\ pc' = "done"
            /\ frames' = << >>
            /\ result' = [entries |-> << >>, err |-> err,
                          cause |-> IF err = "RootStatError" THEN Stat(absRootDir).err
                                    ELSE "nil"]
       ELSE /\ pc' = "walk"
            /\ frames' = WalkDirStart
            /\ result' = result
    /\ ctxAtCall' = ctx
    /\ UNCHANGED <<beyondScan, fs, valid, DefaultIgnorePatterns, scanner, ctx, cur, werr, events, tc, prev>>

(* One invocation of the WalkDir callback, up to the point where a file is  *)
(* opened; for every other node, the whole invocation.                      *)
Visit ==
    /\ pc = "walk"
    /\ HasNext(frames)
    /\ \E absRootDir \in {Abs(tc.rootPath)} :
       LET c == NextCall(frames)
           key == c.key
           v == Ev("visit", key)
       IN
       IF Done(ctx)
       THEN /\ events' = Append(events, v)
            /\ Returns(CtxErr(ctx))
            /\ UNCHANGED entries
       ELSE IF IsWalkErr(c)
       THEN /\ events' = events \o <<v, Log("WARN", key)>>
            /\ Returns(AccessErrorReturn(c))
            /\ UNCHANGED entries
       ELSE IF IsRoot(PathOf(key), absRootDir)
       THEN /\ events' = Append(events, v)
            /\ Returns("nil")
            /\ UNCHANGED entries
       ELSE \E m \in {matchesIgnorePattern(scanner, key)} :
            LET mev == events \o <<v, Ev("match", key)>>
                              \o [i \in 1..Len(m.bad) |-> Log("WARN", key)]
                rel == Rel(absRootDir, PathOf(key))
                entry == Entry(key, ToSlash(rel.path))
            IN
            IF m.ignored
            THEN /\ events' = Append(mev, Log("DEBUG", key))
                 /\ Returns(IgnoredReturn(key))
                 /\ UNCHANGED entries
            ELSE IF rel.err
            THEN /\ events' = Append(mev, Log("WARN", key))
                 /\ Returns("nil")
                 /\ UNCHANGED entries
            ELSE IF ~IsFile(key)
            THEN /\ entries' = Append(entries, entry)
                 /\ events' = Append(mev, Ev("emit", key))
                 /\ Returns("nil")
            ELSE /\ pc' = "classify"
                 /\ cur' = [key |-> key, entry |-> entry, handle |-> FALSE,
                            fileContent |-> << >>]
                 /\ events' = mev
                 /\ UNCHANGED <<frames, werr, entries>>
    /\ UNCHANGED <<beyondScan, fs, valid, ctxAtCall, DefaultIgnorePatterns, scanner, ctx, result, tc, prev>>

(* os.Open and the one file.Read of the classification prefix; a read of a *)
(* directory fails.                                                        *)
Classify ==
    /\ pc = "classify"
    /\ LET key == cur.key
           n == Opened(key)
           o == Ev("open", key)
           bytes == Content(n.data)
       IN
       IF n.io = "noOpen"
       THEN /\ cur' = [cur EXCEPT !.entry = MarkReadErr(cur.entry, "openErr")]
            /\ events' = events \o <<o, Log("WARN", key)>>
       ELSE IF n.io = "noRead" \/ n.type = "dir"
       THEN /\ cur' = [cur EXCEPT !.entry = MarkReadErr(cur.entry, "readErr"),
                                  !.handle = TRUE]
            /\ events' = events \o <<o, Log("WARN", key)>>
       ELSE /\ cur' = [cur EXCEPT !.handle = TRUE,
                          !.fileContent = ReadPrefix(scanner, bytes)]
            /\ events' = Append(events, o)
    /\ pc' = "finish"
    /\ UNCHANGED <<beyondScan, fs, valid, ctxAtCall, DefaultIgnorePatterns, scanner, ctx, frames, entries, werr,
                   result, tc, prev>>

(* The rest of the callback on a file: classification, suppression of a     *)
(* binary file or the append, and the deferred Close.                       *)
Finish ==
    /\ pc = "finish"
    /\ LET key == cur.key
           entry == Classified(scanner, cur.entry, cur.fileContent)
           close == DeferredClose(cur)
       IN
       IF SkipBinary(scanner, entry)
       THEN /\ events' = events \o <<Log("DEBUG", key)>> \o close
            /\ UNCHANGED entries
       ELSE /\ entries' = Append(entries, entry)
            /\ events' = events \o <<Ev("emit", key)>> \o close
    /\ Returns("nil")
    /\ UNCHANGED <<beyondScan, fs, valid, ctxAtCall, DefaultIgnorePatterns, scanner, ctx, result, tc, prev>>

(* WalkDir has returned: the end of Scan. *)
ScanReturn ==
    /\ pc = "walk"
    /\ ~HasNext(frames)
    /\ pc' = "done"
    /\ result' = ScanResult(werr, entries)
    /\ events' = IF werr = "Canceled" \/ werr = "DeadlineExceeded"
                 THEN Append(events, Log("INFO", << >>))
                 ELSE events
    /\ UNCHANGED <<beyondScan, fs, valid, ctxAtCall, DefaultIgnorePatterns, scanner, ctx, frames, cur, entries, werr,
                   tc, prev>>

(* The caller cancels the context, or its deadline passes. *)
Cancel ==
    /\ pc \in {"validate", "scan", "walk", "classify", "finish"}
    /\ ctx = "live"
    /\ \E e \in {"Canceled", "DeadlineExceeded"} : ctx' = e
    /\ UNCHANGED <<beyondScan, fs, valid, ctxAtCall, DefaultIgnorePatterns, scanner, pc, frames, cur, entries, werr,
                   result, events, tc, prev>>

(* The caller's context is of a type of its own, and ends with an error    *)
(* that is neither context.Canceled nor context.DeadlineExceeded, such as  *)
(* one that wraps them.                                                    *)
CancelOther ==
    /\ pc \in {"validate", "scan", "walk", "classify", "finish"}
    /\ ctx = "live"
    /\ ctx' = "Other"
    /\ UNCHANGED <<beyondScan, fs, valid, ctxAtCall, DefaultIgnorePatterns, scanner, pc, frames, cur, entries, werr,
                   result, events, tc, prev>>

(* Between the scan and the report a file of the result is replaced,       *)
(* rewritten or made unreadable.                                           *)
Touch ==
    /\ pc = "done"
    /\ result.err = "nil"
    /\ touched = {}
    /\ \E i \in 1..Len(result.entries) :
          \E n \in {FileNode("ok", Text), FileNode("ok", Bin), FileNode("noOpen", Text)} :
             LET k == KeyOf(result.entries[i].Path) IN
             /\ fs[k].type = "file"
             /\ n # fs[k]
             /\ fs' = [fs EXCEPT ![k] = n]
             /\ touched' = {k}
    /\ pc' = "touched"
    /\ UNCHANGED <<report, mem, calls, valid, ctxAtCall, DefaultIgnorePatterns, scanner, ctx, frames,
                   cur, entries, werr, result, events, tc, prev>>

(* main: after a Scan that returned no error, WriteFileContents on its     *)
(* entries.                                                                *)
WriteFileContents ==
    /\ pc \in {"done", "touched"}
    /\ result.err = "nil"
    /\ report' = [written |-> TRUE, sections |-> Sections(result.entries)]
    /\ pc' = "reported"
    /\ UNCHANGED <<touched, mem, calls, fs, valid, ctxAtCall, DefaultIgnorePatterns, scanner, ctx,
                   frames, cur, entries, werr, result, events, tc, prev>>

----------------------------------------------------------------------------
(* Scan calls that run side by side.  A call is a record of the locals of  *)
(* its Scan and of the walk below it: where it stands, its root, which     *)
(* scanner it was called on, the walker's stack, the file in hand, its     *)
(* entries and what it returned.  The contexts are context.Background().   *)

TheScanners == <<scanner, NewScanner(DefaultIgnorePatterns, tc.ignorePatterns,
                                     ~tc.ignoreBinaryFiles)>>

CallInit(root, si) ==
    [pc |-> "scan", root |-> root, s |-> si, frames |-> << >>, cur |-> NoCur,
     entries |-> << >>, werr |-> "nil", result |-> NoResult]

(* The callback of call c returns ret to its walker. *)
CallReturns(c, ret) ==
    LET w == WalkNext(c.frames, ret) IN
    [c EXCEPT !.frames = w.frames, !.werr = w.werr, !.pc = "walk", !.cur = NoCur]

(* Mutant: the entries are kept in one place for all the calls. *)
Collect_Shared(cs, i, entry) ==
    [j \in 1..Len(cs) |-> [cs[j] EXCEPT !.entries = Append(@, entry)]]

(* entries = append(entries, entry), entries being a local of the call. *)
Collect(cs, i, entry) == [cs EXCEPT ![i].entries = Append(@, entry)]

(* The next step of call i: the checks of the root and the start of the    *)
(* walk, one callback invocation up to the open of a file, the open and    *)
(* the read, the rest of the callback, or the return of Scan.              *)
CallStep(cs, i) ==
    LET c == cs[i]
        sc == TheScanners[c.s]
        absRootDir == PathOf(c.root)
    IN
    IF c.pc = "scan"
    THEN LET err == RootCheck(absRootDir) IN
         IF err # "nil"
         THEN [cs EXCEPT ![i].pc = "done",
                         ![i].result = [entries |-> << >>, err |-> err, cause |-> "nil"]]
         ELSE [cs EXCEPT ![i].pc = "walk",
                         ![i].frames = << <<Call(c.root, FALSE, FALSE)>> >>]
    ELSE IF c.pc = "walk" /\ ~HasNext(c.frames)
    THEN [cs EXCEPT ![i].pc = "done", ![i].result = ScanResult(c.werr, c.entries)]
    ELSE IF c.pc = "walk"
    THEN LET n == NextCall(c.frames)
             key == n.key
             m == matchesIgnorePattern(sc, key)
             rel == Rel(absRootDir, PathOf(key))
             entry == Entry(key, ToSlash(rel.path))
         IN
         IF IsWalkErr(n) THEN [cs EXCEPT ![i] = CallReturns(c, AccessErrorReturn(n))]
         ELSE IF IsRoot(PathOf(key), absRootDir) THEN [cs EXCEPT ![i] = CallReturns(c, "nil")]
         ELSE IF m.ignored THEN [cs EXCEPT ![i] = CallReturns(c, IgnoredReturn(key))]
         ELSE IF rel.err THEN [cs EXCEPT ![i] = CallReturns(c, "nil")]
         ELSE IF ~IsFile(key)
         THEN [Collect(cs, i, entry) EXCEPT ![i] = CallReturns(@, "nil")]
         ELSE [cs EXCEPT ![i].pc = "classify",
                         ![i].cur = [key |-> key, entry |-> entry, handle |-> FALSE,
                                     fileContent |-> << >>]]
    ELSE IF c.pc = "classify"
    THEN LET n == Opened(c.cur.key) IN
         IF n.io = "noOpen"
         THEN [cs EXCEPT ![i].pc = "finish",
                         ![i].cur.entry = MarkReadErr(c.cur.entry, "openErr")]
         ELSE IF n.io = "noRead" \/ n.type = "dir"
         THEN [cs EXCEPT ![i].pc = "finish",
                         ![i].cur.entry = MarkReadErr(c.cur.entry, "readErr"),
                         ![i].cur.handle = TRUE]
         ELSE [cs EXCEPT ![i].pc = "finish",
                         ![i].cur.handle = TRUE,
                         ![i].cur.fileContent = ReadPrefix(sc, Content(n.data))]
    ELSE LET entry == Classified(sc, c.cur.entry, c.cur.fileContent) IN
         IF SkipBinary(sc, entry) THEN [cs EXCEPT ![i] = CallReturns(c, "nil")]
         ELSE [Collect(cs, i, entry) EXCEPT ![i] = CallReturns(@, "nil")]

(* Two goroutines call Scan, on one scanner or on two, on two directories  *)
(* of the tree, one of which may lie inside the other.                     *)
StartCalls ==
    /\ pc = "validate"
    /\ calls = << >>
    /\ \E r1, r2 \in {k \in DOMAIN fs : IsDir(k)} :
          \E s2 \in 1..Len(TheScanners) :
             /\ r1 # r2
             /\ calls' = <<CallInit(r1, 1), CallInit(r2, s2)>>
    /\ pc' = "calls"
    /\ UNCHANGED <<report, touched, mem, fs, valid, ctxAtCall, DefaultIgnorePatterns, scanner,
                   ctx, frames, cur, entries, werr, result, events, tc, prev>>

(* The scheduler lets one of the calls take its next step. *)
CallRuns ==
    /\ pc = "calls"
    /\ \E i \in 1..Len(calls) :
          /\ calls[i].pc # "done"
          /\ calls' = CallStep(calls, i)
    /\ UNCHANGED <<report, touched, mem, fs, valid, ctxAtCall, DefaultIgnorePatterns, scanner,
                   ctx, pc, frames, cur, entries, werr, result, events, tc, prev>>

(* Patterns a caller passes to NewScanner, and the pattern a change of the *)
(* defaults brings in.                                                     *)
CallerPatterns == {<< >>, Lst(<<120>>), Lst(<<121>>)}    \* none, x, y

NewPattern == <<122>>                                    \* z

(* NewScanner(logger, ps, false): the append of line 45 and the struct.    *)
NewScannerCall ==
    /\ Len(mem.scanners) < MaxScanners
    /\ \E ps \in CallerPatterns :
          LET a == append(mem, mem.defaults, ps) IN
          mem' = [mem EXCEPT !.arrays = a.arrays,
                             !.scanners = Append(mem.scanners, a.slice)]
    /\ UNCHANGED <<report, touched, calls, fs, valid, ctxAtCall, DefaultIgnorePatterns, scanner,
                   ctx, pc, frames, cur, entries, werr, result, events, tc, prev>>

(* Some code of the program assigns to an element of the exported          *)
(* variable: DefaultIgnorePatterns[i] = "z".                               *)
SetDefault ==
    /\ mem.changes < MaxChanges
    /\ \E i \in 1..mem.defaults.len :
          mem' = [mem EXCEPT !.arrays[mem.defaults.arr][i] = NewPattern,
                             !.changes = @ + 1]
    /\ UNCHANGED <<report, touched, calls, fs, valid, ctxAtCall, DefaultIgnorePatterns, scanner,
                   ctx, pc, frames, cur, entries, werr, result, events, tc, prev>>

(* DefaultIgnorePatterns = append(DefaultIgnorePatterns, "z") *)
AppendDefault ==
    /\ mem.changes < MaxChanges
    /\ LET a == append(mem, mem.defaults, Lst(NewPattern)) IN
       mem' = [mem EXCEPT !.arrays = a.arrays, !.defaults = a.slice, !.changes = @ + 1]
    /\ UNCHANGED <<report, touched, calls, fs, valid, ctxAtCall, DefaultIgnorePatterns, scanner,
                   ctx, pc, frames, cur, entries, werr, result, events, tc, prev>>

(* The caller validates the root path first and then, whatever the verdict, *)
(* calls Scan on it.                                                        *)
Validate ==
    /\ pc = "validate"
    /\ valid' = ValidateDirectoryPath(tc.rootPath)
    /\ pc' = "scan"
    /\ UNCHANGED <<beyondScan, fs, ctxAtCall, DefaultIgnorePatterns, scanner, ctx, frames, cur,
                   entries, werr, result, events, tc, prev>>

(* After a scan that succeeded the caller builds a second scanner, with the *)
(* other binary-skip flag, and scans the same tree again under a fresh      *)
(* context.                                                                 *)
Rescan ==
    /\ pc = "done"
    /\ prev = << >>
    /\ result.err = "nil"
    /\ prev' = <<[scanner |-> scanner, result |-> result]>>
    /\ tc' = [tc EXCEPT !.ignoreBinaryFiles = ~tc.ignoreBinaryFiles]
    /\ scanner' = NewScanner(DefaultIgnorePatterns, tc'.ignorePatterns, tc'.ignoreBinaryFiles)
    /\ ctx' = "live"
    /\ pc' = "scan"
    /\ frames' = << >>
    /\ cur' = NoCur
    /\ entries' = << >>
    /\ werr' = "nil"
    /\ result' = NoResult
    /\ events' = << >>
    /\ ctxAtCall' = "none"
    /\ UNCHANGED <<beyondScan, fs, valid, DefaultIgnorePatterns>>

Next == Validate \/ Scan \/ Visit \/ Classify \/ Finish \/ ScanReturn \/ Cancel \/ Rescan

Spec == Init /\ [][Next]_vars

(* Scans under contexts of any implementation, on the small trees. *)
NextCustomCtx == Next \/ CancelOther

SpecCustomCtx == InitLinks /\ [][NextCustomCtx]_vars

(* Two Scan calls under every interleaving of their steps. *)
NextConc == StartCalls \/ CallRuns

SpecConc == InitConc /\ [][NextConc]_vars

(* Scanners are constructed while the default patterns change. *)
NextCtor == NewScannerCall \/ SetDefault \/ AppendDefault

SpecCtor == InitCtor /\ [][NextCtor]_vars

(* A scan and the report on its result, on trees that may change between  *)
(* the two.                                                                *)
NextReport == Next \/ Touch \/ WriteFileContents

SpecReport == InitReport /\ [][NextReport]_vars

(* A call of Scan runs on: the goroutine that called it is scheduled until *)
(* the call returns.  Nothing is assumed of the caller's other steps.      *)
SpecFair ==
    InitLinks /\ [][Next]_vars /\ WF_vars(Scan \/ Visit \/ Classify \/ Finish \/ ScanReturn)

----------------------------------------------------------------------------
(* What the properties speak of. *)

Succeeded == pc = "done" /\ result.err = "nil"

WasCancelled == werr = "Canceled" \/ werr = "DeadlineExceeded"

Emitted == {KeyOf(entries[i].Path) : i \in 1..Len(entries)}

Ignored(k) == matchesIgnorePattern(scanner, k).ignored

(* The walker lists directory a and descends into it. *)
Traversed(a) ==
    IF a = << >> THEN fs[a].io = "ok"
    ELSE IsDir(a) /\ fs[a].io = "ok" /\ ~Ignored(a)

Reached(k) == \A n \in 0..(Len(k) - 1) : Traversed(SubSeq(k, 1, n))

Nodes == DOMAIN fs \ {<< >>}

HasNulInPrefix(d) == d.byte = 0 /\ d.at < d.len /\ d.at < DefaultBinaryCheckSize

Suppressed(k) ==
    /\ ~IsDir(k)
    /\ scanner.ignoreBinaryFiles
    /\ Opened(k).type = "file"
    /\ Opened(k).io = "ok"
    /\ HasNulInPrefix(Opened(k).data)

Expected == {k \in Nodes : Reached(k) /\ ~Ignored(k) /\ ~Suppressed(k)}

LaterSiblings(k) ==
    {s \in Nodes : Len(s) = Len(k) /\ Front(s) = Front(k) /\ Last(s) > Last(k)}

NextSibling(k) ==
    CHOOSE s \in LaterSiblings(k) : \A t \in LaterSiblings(k) : Last(s) <= Last(t)

(* The callback was invoked with walkErr for the node of events[i]. *)
AccessErrorAt(i) ==
    /\ i > 1
    /\ events[i] = Log("WARN", events[i].key)
    /\ events[i - 1] = Ev("visit", events[i].key)

DefaultNames == {<<46, 103, 105, 116>>, <<46, 68, 83, 95, 83, 116, 111, 114, 101>>,
                 <<46, 105, 100, 101, 97>>, <<46, 118, 115, 99, 111, 100, 101>>}

----------------------------------------------------------------------------
(* C1: in the sequence a successful Scan returns, every entry's depth is    *)
(* the number of '/' in its relative path, an entry directly under the root *)
(* has depth 0, and an entry of depth > 0 has its parent directory as an    *)
(* entry strictly earlier in the sequence, with depth one less.             *)
C1_DepthAndParentFirst ==
    Succeeded =>
        \A i \in 1..Len(result.entries) :
            LET e == result.entries[i]
                k == KeyOf(e.Path)
            IN /\ e.Depth = Count(e.RelPath, 47)
               /\ Len(k) = 1 => e.Depth = 0
               /\ e.Depth > 0 =>
                      \E j \in 1..(i - 1) :
                          /\ result.entries[j].IsDir
                          /\ result.entries[j].Path = PathOf(Front(k))
                          /\ result.entries[j].Depth = e.Depth - 1

C1_Witness ==
    /\ Succeeded
    /\ \E i \in 1..Len(result.entries) :
           result.entries[i].Depth > 0 /\ ~result.entries[i].IsDir

(* C2: once a directory has matched an ignore pattern, it is not emitted,   *)
(* nothing below it is ever visited, matched, opened, logged or emitted,    *)
(* and the next node visited is its next sibling.                           *)
C2_IgnoredDirPruned ==
    \A i \in 1..Len(events) :
        LET d == events[i].key IN
        (events[i].ev = "match" /\ IsDir(d) /\ Ignored(d)) =>
            /\ \A j \in 1..Len(events) :
                   /\ ~IsUnder(events[j].key, d)
                   /\ ~(events[j].ev = "emit" /\ events[j].key = d)
            /\ \A k \in Emitted : k # d /\ ~IsUnder(k, d)
            /\ \A j \in (i + 1)..Len(events) :
                   (/\ events[j].ev = "visit"
                    /\ \A m \in (i + 1)..(j - 1) : events[m].ev # "visit"
                    /\ LaterSiblings(d) # {})
                   => events[j].key = NextSibling(d)

C2_Witness ==
    /\ Succeeded
    /\ \E d \in Nodes :
           /\ IsDir(d) /\ Ignored(d) /\ Reached(d)
           /\ \E c \in Nodes : IsUnder(c, d) /\ ~Ignored(c)
           /\ LaterSiblings(d) # {}
           /\ NextSibling(d) \in Emitted

(* C3: a callback invocation that begins after the context fired creates no *)
(* entry and opens nothing, ends the walk there, and Scan then returns the  *)
(* context's own error with no entries.                                     *)
C3_CancelledVisitStops ==
    [][/\ (pc = "walk" /\ HasNext(frames) /\ ctx # "live") =>
              /\ entries' = entries
              /\ events' = Append(events, Ev("visit", NextCall(frames).key))
              /\ pc' = "walk"
              /\ ~HasNext(frames')
              /\ werr' = ctx
       /\ (pc = "walk" /\ ~HasNext(frames) /\ werr # "nil") =>
              /\ ctx \in {"Canceled", "DeadlineExceeded"}
              /\ pc' = "done"
              /\ result' = [entries |-> << >>, err |-> ctx, cause |-> "nil"]
      ]_vars

C3_Witness ==
    /\ pc = "done"
    /\ result = [entries |-> << >>, err |-> "DeadlineExceeded", cause |-> "nil"]
    /\ entries # << >>
    /\ \E k \in Expected : k \notin Emitted

(* C4: Scan returns either no error and the complete sequence (one entry    *)
(* for each node the walk reaches that is neither ignored nor suppressed    *)
(* as binary), or an error and no entries.                                  *)
C4_AllOrNothing ==
    pc = "done" =>
        IF result.err = "nil"
        THEN /\ result.entries = entries
             /\ Emitted = Expected
             /\ Len(entries) = Cardinality(Expected)
        ELSE result.entries = << >>

C4_Witness ==
    /\ pc = "done"
    /\ result.err = "Canceled"
    /\ Len(entries) >= 2
    /\ result.entries = << >>

(* C5: a successful scan with ignoreBinaryFiles = TRUE returns no entry     *)
(* marked binary and none for a readable file with a NUL in its prefix, and *)
(* has as many entries as the scan of the same tree with the same patterns  *)
(* and ignoreBinaryFiles = FALSE, less that scan's binary entries.          *)
C5_BinarySkipCount ==
    (Succeeded /\ prev # << >> /\ scanner.ignoreBinaryFiles) =>
        LET before == prev[1].result.entries IN
        /\ ~prev[1].scanner.ignoreBinaryFiles
        /\ \A i \in 1..Len(result.entries) :
               LET e == result.entries[i]
                   n == fs[KeyOf(e.Path)]
               IN /\ ~e.IsBinary
                  /\ (~e.IsDir /\ n.io = "ok") => ~HasNulInPrefix(n.data)
        /\ Len(result.entries) =
               Len(before) - Cardinality({i \in 1..Len(before) : before[i].IsBinary})

C5_Witness ==
    /\ Succeeded
    /\ prev # << >>
    /\ scanner.ignoreBinaryFiles
    /\ \E i \in 1..Len(prev[1].result.entries) : prev[1].result.entries[i].IsBinary
    /\ Len(result.entries) > 0

(* C6: an access error reported by the walker does not fail the scan: below *)
(* the node it is reported for nothing is visited, and a scan that is not   *)
(* cancelled succeeds with every other reachable, non-ignored node emitted. *)
C6_AccessErrorsNotFatal ==
    \A i \in 1..Len(events) :
        AccessErrorAt(i) =>
            /\ \A j \in 1..Len(events) : ~IsUnder(events[j].key, events[i].key)
            /\ (pc = "done" /\ ~WasCancelled) =>
                   /\ result.err = "nil"
                   /\ {KeyOf(result.entries[j].Path) : j \in 1..Len(result.entries)} = Expected

C6_Witness ==
    /\ Succeeded
    /\ \E i \in 1..Len(events) :
           /\ AccessErrorAt(i)
           /\ \E c \in Nodes : IsUnder(c, events[i].key)
           /\ LaterSiblings(events[i].key) \cap Emitted # {}

(* C7: a reachable, non-ignored file whose open or read fails has exactly   *)
(* one entry in a successful result, with the error set and isBinary false, *)
(* whatever ignoreBinaryFiles is.                                           *)
C7_ReadErrorStillEmitted ==
    Succeeded =>
        \A k \in Nodes :
            (Reached(k) /\ ~Ignored(k) /\ ~IsDir(k) /\ fs[k].io \in {"noOpen", "noRead"}) =>
                LET at == {i \in 1..Len(result.entries) : result.entries[i].Path = PathOf(k)}
                IN /\ Cardinality(at) = 1
                   /\ \A i \in at :
                          /\ ~result.entries[i].IsBinary
                          /\ result.entries[i].ReadErr =
                                 (IF fs[k].io = "noOpen" THEN "openErr" ELSE "readErr")

C7_Witness ==
    /\ Succeeded
    /\ scanner.ignoreBinaryFiles
    /\ \E i \in 1..Len(result.entries) :
           /\ result.entries[i].ReadErr = "readErr"
           /\ HasNulInPrefix(fs[KeyOf(result.entries[i].Path)].data)

(* C8: a file opened and read without error is classified binary exactly    *)
(* when one of its first DefaultBinaryCheckSize bytes is NUL: with          *)
(* ignoreBinaryFiles false its entry carries that verdict, with it true the *)
(* file is left out exactly then.  An empty file is never binary.           *)
C8_NulInPrefixIsBinary ==
    Succeeded =>
        \A k \in Nodes :
            (Reached(k) /\ ~Ignored(k) /\ ~IsDir(k) /\ Opened(k).type = "file"
                /\ Opened(k).io = "ok") =>
                LET nul == HasNulInPrefix(Opened(k).data) IN
                /\ Opened(k).data.len = 0 => ~nul
                /\ IF scanner.ignoreBinaryFiles
                   THEN (k \in Emitted) <=> ~nul
                   ELSE \E i \in 1..Len(result.entries) :
                            /\ result.entries[i].Path = PathOf(k)
                            /\ result.entries[i].IsBinary <=> nul

C8_Witness ==
    /\ Succeeded
    /\ \E i \in 1..Len(result.entries) :
           /\ result.entries[i].IsBinary
           /\ fs[KeyOf(result.entries[i].Path)].data.at = DefaultBinaryCheckSize - 1

(* C9: whatever patterns the caller gives, the scanner's list holds every   *)
(* default pattern, no node is emitted whose name or whose ancestor's name  *)
(* is a default pattern, and nothing happens below such a node.             *)
C9_DefaultsAlwaysExcluded ==
    /\ \A p \in DefaultNames :
           \E i \in 1..Len(scanner.ignorePatterns) : scanner.ignorePatterns[i] = p
    /\ \A k \in Emitted : \A n \in 1..Len(k) : Names[k[n]] \notin DefaultNames
    /\ \A j \in 1..Len(events) :
           \A n \in 1..(Len(events[j].key) - 1) : Names[events[j].key[n]] \notin DefaultNames

C9_Witness ==
    /\ Succeeded
    /\ tc.ignorePatterns # << >>
    /\ \E j \in 1..Len(events) :
           /\ events[j].ev = "match"
           /\ Len(events[j].key) = 2
           /\ IsDir(events[j].key)
           /\ Name(events[j].key) \in DefaultNames

(* C10: a pattern ending in the separator excludes exactly the directories  *)
(* whose base name is the pattern without that separator, and is not tried  *)
(* as a glob: a reached node is left out for a pattern (a directory not     *)
(* emitted, a file not even opened) exactly when it is such a directory or  *)
(* a pattern without trailing separator globs its name.                     *)
C10_DirectoryPatternOnlyDirs ==
    Succeeded =>
        \A k \in Nodes :
            Reached(k) =>
                LET pats == {scanner.ignorePatterns[i] : i \in 1..Len(scanner.ignorePatterns)}
                    byDir == /\ IsDir(k)
                             /\ \E p \in pats : Last(p) = Separator /\ Front(p) = Name(k)
                    byGlob == \E p \in pats : Last(p) # Separator /\ Match(p, Name(k)).matched
                    kept == IF IsDir(k) THEN k \in Emitted
                            ELSE \E j \in 1..Len(events) : events[j] = Ev("open", k)
                IN kept <=> ~(byDir \/ byGlob)

C10_Witness ==
    /\ Succeeded
    /\ \E i \in 1..Len(result.entries) :
           /\ ~result.entries[i].IsDir
           /\ \E j \in 1..Len(scanner.ignorePatterns) :
                  scanner.ignorePatterns[j] =
                      Name(KeyOf(result.entries[i].Path)) \o <<Separator>>

(* C11: a file that a glob pattern ignores is never opened and is not       *)
(* emitted, and the walk goes on with its siblings: after a successful scan *)
(* every later sibling of such a file was visited after it, and each one    *)
(* that no pattern ignores and that is not suppressed as binary is emitted. *)
C11_IgnoredFileOmittedAlone ==
    /\ \A j \in 1..Len(events) : events[j].ev = "open" => ~Ignored(events[j].key)
    /\ Succeeded =>
           \A k \in Nodes :
               (~IsDir(k) /\ Reached(k) /\ Ignored(k)) =>
                   /\ k \notin Emitted
                   /\ \A s \in LaterSiblings(k) :
                          /\ \E i, j \in 1..Len(events) :
                                 /\ i < j
                                 /\ events[i] = Ev("match", k)
                                 /\ events[j] = Ev("visit", s)
                          /\ (~Ignored(s) /\ ~Suppressed(s)) => s \in Emitted

C11_Witness ==
    /\ Succeeded
    /\ \E k \in Nodes :
           /\ ~IsDir(k) /\ Reached(k) /\ Ignored(k)
           /\ Name(k) \notin DefaultNames
           /\ \E s \in LaterSiblings(k) : ~IsDir(s) /\ s \in Emitted

(* Pattern p excludes node k: a directory pattern naming the directory, or  *)
(* a well-formed glob that matches the base name.                           *)
Hit(p, k) ==
    IF Last(p) = Separator THEN IsDir(k) /\ Front(p) = Name(k)
    ELSE ~Match(p, Name(k)).err /\ Match(p, Name(k)).matched

Malformed(p, k) == Last(p) # Separator /\ Match(p, Name(k)).err

(* The position of the first pattern of the scanner's list that excludes k, *)
(* one past the list if none does.                                          *)
FirstHit(k) ==
    LET pats == scanner.ignorePatterns
        hits == {i \in 1..Len(pats) : Hit(pats[i], k)}
    IN IF hits = {} THEN Len(pats) + 1
       ELSE CHOOSE i \in hits : \A h \in hits : i <= h

(* C12: a malformed pattern neither fails the scan nor excludes a node. A   *)
(* scan that was not cancelled, of a root that is a directory, returns      *)
(* without error whatever patterns are malformed; and at every node that is *)
(* matched, each malformed pattern before the first excluding pattern is    *)
(* logged as a warning and the node is ignored exactly when some pattern of *)
(* the list, before or after a malformed one, excludes it.                  *)
C12_MalformedPatternSkipped ==
    /\ (pc = "done" /\ ctx = "live" /\ RootCheck(Abs(tc.rootPath)) = "nil") =>
           result.err = "nil"
    /\ \A j \in 1..Len(events) :
           events[j].ev = "match" =>
               LET k == events[j].key
                   pats == scanner.ignorePatterns
                   first == FirstHit(k)
                   nbad == Cardinality({i \in 1..(first - 1) : Malformed(pats[i], k)})
               IN /\ j + nbad <= Len(events)
                  /\ \A i \in 1..nbad : events[j + i] = Log("WARN", k)
                  /\ first <= Len(pats) <=>
                         /\ j + nbad + 1 <= Len(events)
                         /\ events[j + nbad + 1] = Log("DEBUG", k)

C12_Witness ==
    /\ Succeeded
    /\ \E j \in 1..Len(events) :
           /\ events[j].ev = "match"
           /\ LET k == events[j].key
                  pats == scanner.ignorePatterns
              IN /\ FirstHit(k) <= Len(pats)
                 /\ \E i \in 1..(FirstHit(k) - 1) : Malformed(pats[i], k)
                 /\ k \notin Emitted

RootErrors == {"RootNotFound", "RootStatError", "RootNotADirectory"}

(* The nodes on disk that the path names. *)
NamedBy(path) == {k \in DOMAIN fs : Exists(k) /\ PathOf(k) = path}

(* C13: when the resolved root names nothing on disk, Scan returns a root   *)
(* error of the not-found class (the not-found error itself when stat       *)
(* reports that the path does not exist, the stat error when it runs        *)
(* through a file), no entries, and the callback is never invoked; when it  *)
(* names a node that is no directory, Scan returns the not-a-directory      *)
(* error and no entries.                                                    *)
C13_MissingOrNonDirRoot ==
    pc = "done" =>
        LET abs == Abs(tc.rootPath) IN
        /\ (~Contains(abs, 0) /\ abs # <<Separator>> /\ NamedBy(abs) = {}) =>
               /\ result.err \in {"RootNotFound", "RootStatError"}
               /\ result.err = "RootNotFound" <=> IsNotExist(Stat(abs).err)
               /\ result.entries = << >>
               /\ events = << >>
        /\ (\E k \in NamedBy(abs) : ~IsDir(k) /\ fs[k].io # "noStat") =>
               /\ result = [entries |-> << >>, err |-> "RootNotADirectory", cause |-> "nil"]
               /\ events = << >>

C13_Witness ==
    /\ pc = "done"
    /\ result.err = "RootNotADirectory"
    /\ tc.rootPath # AbsRoot
    /\ Nodes = {}

(* C14: whenever ValidateDirectoryPath rejects the root path, Scan on that  *)
(* path fails with a root error and returns no entries.                     *)
C14_ScanRejectsWhatValidatorRejects ==
    (pc = "done" /\ valid # "nil") =>
        /\ result.err \in RootErrors
        /\ result.entries = << >>

(* C15: ValidateDirectoryPath answers UnsafePath for every path that holds  *)
(* a null byte.                                                             *)
C15_NullByteIsUnsafePath ==
    (valid # "none" /\ Contains(tc.rootPath, 0)) => valid = "UnsafePath"

(* C16: a call of ValidateDirectoryPath answers nil exactly when the path   *)
(* is not empty, stat succeeds on it, it is a directory and it holds no     *)
(* null byte; EmptyPath for the empty path, NotFound when stat fails,       *)
(* NotADirectory when stat succeeds on something that is no directory; and  *)
(* the call changes nothing: not the tree, the scanner, the default         *)
(* patterns, the context or anything of a scan.                             *)
C16_ValidatorVerdict ==
    [][valid' # valid =>
          LET path == tc.rootPath
              st == Stat(path)
          IN /\ valid' = "nil" <=>
                    (path # << >> /\ st.err = "nil" /\ st.isDir /\ ~Contains(path, 0))
             /\ path = << >> => valid' = "EmptyPath"
             /\ (path # << >> /\ st.err # "nil") => valid' = "NotFound"
             /\ (path # << >> /\ st.err = "nil" /\ ~st.isDir) => valid' = "NotADirectory"
             /\ UNCHANGED <<fs, DefaultIgnorePatterns, scanner, ctx, ctxAtCall, frames,
                            cur, entries, werr, result, events, tc, prev>>]_vars

C16_Witness ==
    /\ valid = "NotADirectory"
    /\ tc.rootPath # AbsRoot

Fired == ctxAtCall \in {"Canceled", "DeadlineExceeded"}

NothingDone == \A j \in 1..Len(events) : events[j].ev \notin {"match", "open", "emit"}

(* The resolved root is a directory that stat succeeds on. *)
RootIsDir == \E k \in NamedBy(Abs(tc.rootPath)) : IsDir(k) /\ fs[k].io # "noStat"

(* C17, as claimed: a Scan that is called after the context was cancelled   *)
(* returns the context's error and no entries, and no node is matched,      *)
(* opened or emitted.                                                       *)
C17_CancelledBeforeCall ==
    (pc = "done" /\ Fired) =>
        /\ result = [entries |-> << >>, err |-> ctxAtCall, cause |-> "nil"]
        /\ NothingDone

(* C17, amended: a Scan that is called after the context was cancelled      *)
(* returns no entries and no node is matched, opened or emitted; it returns *)
(* the context's error when the resolved root is a directory, and the root  *)
(* error otherwise.                                                         *)
C17_CancelledBeforeWalk ==
    (pc = "done" /\ Fired) =>
        /\ result.entries = << >>
        /\ NothingDone
        /\ IF RootIsDir THEN result.err = ctxAtCall ELSE result.err \in RootErrors

C17_Witness ==
    /\ pc = "done"
    /\ ctxAtCall = "DeadlineExceeded"
    /\ result.err = "DeadlineExceeded"
    /\ \E k \in Nodes : ~IsDir(k)

(* C18: the root is never an entry, however the root argument is written:   *)
(* no entry collected or returned has the resolved root as its path, and    *)
(* none has the relative path "" or ".".                                    *)
C18_RootNeverEmitted ==
    \A es \in {entries, result.entries} :
        \A i \in 1..Len(es) :
            /\ es[i].Path # Abs(tc.rootPath)
            /\ es[i].RelPath \notin {<< >>, <<46>>}

C18_Witness ==
    /\ Succeeded
    /\ tc.rootPath = <<46, 47>>
    /\ result.entries # << >>

(* C19: a directory is never opened for classification, and every entry of  *)
(* a directory, collected or returned, has IsBinary false and no ReadErr.   *)
C19_DirectoriesNotClassified ==
    /\ \A j \in 1..Len(events) : events[j].ev = "open" => ~IsDir(events[j].key)
    /\ \A es \in {entries, result.entries} :
           \A i \in 1..Len(es) :
               es[i].IsDir => (~es[i].IsBinary /\ es[i].ReadErr = "nil")

C19_Witness ==
    /\ Succeeded
    /\ \E i, j, k \in 1..Len(result.entries) :
           /\ result.entries[i].IsDir
           /\ result.entries[j].IsBinary
           /\ result.entries[k].ReadErr # "nil"

(* C20: no two entries, collected or returned, have the same relative path  *)
(* or the same path; a directory whose listing fails is visited twice and   *)
(* emitted once.                                                            *)
C20_RelPathsUnique ==
    \A es \in {entries, result.entries} :
        \A i, j \in 1..Len(es) :
            i # j => (es[i].RelPath # es[j].RelPath /\ es[i].Path # es[j].Path)

C20_Witness ==
    /\ Succeeded
    /\ \E k \in Emitted :
           /\ IsDir(k)
           /\ fs[k].io = "noList"
           /\ \E i, j \in 1..Len(events) :
                  i < j /\ events[i] = Ev("visit", k) /\ events[j] = Ev("visit", k)

----------------------------------------------------------------------------
(* The first DefaultBinaryCheckSize bytes of what node k holds. *)
Window(k) ==
    LET b == Content(fs[k].data) IN SubSeq(b, 1, Min(Len(b), DefaultBinaryCheckSize))

(* The entries of the result that are files whose prefix was read. *)
ReadFiles ==
    {i \in 1..Len(result.entries) :
        LET k == KeyOf(result.entries[i].Path) IN
        fs[k].type = "file" /\ result.entries[i].ReadErr = "nil"}

(* C21: classification never holds more than 1024 bytes of a file, two     *)
(* files of a result that agree on their first 1024 bytes have the same    *)
(* IsBinary, and a file without a NUL byte in its first 1024 bytes is not   *)
(* binary, whatever follows.                                               *)
C21_ClassifiesPrefixOnly ==
    /\ Len(cur.fileContent) <= DefaultBinaryCheckSize
    /\ Succeeded =>
          /\ \A i, j \in ReadFiles :
                 Window(KeyOf(result.entries[i].Path)) = Window(KeyOf(result.entries[j].Path))
                 => result.entries[i].IsBinary = result.entries[j].IsBinary
          /\ \A i \in ReadFiles :
                 ~Contains(Window(KeyOf(result.entries[i].Path)), 0)
                 => ~result.entries[i].IsBinary

(* Two files that differ only past the window, one with a NUL byte there. *)
C21_Witness ==
    /\ Succeeded
    /\ \E i, j \in ReadFiles :
          LET a == fs[KeyOf(result.entries[i].Path)].data
              b == fs[KeyOf(result.entries[j].Path)].data
          IN /\ a # b
             /\ Window(KeyOf(result.entries[i].Path)) = Window(KeyOf(result.entries[j].Path))
             /\ a.byte = 0 /\ a.at >= DefaultBinaryCheckSize
             /\ b.byte = 65
             /\ ~result.entries[i].IsBinary

----------------------------------------------------------------------------
(* The opens among the first n events that produced a handle, less the     *)
(* closes among them.                                                      *)
Held(n) ==
    Cardinality({j \in 1..n : events[j].ev = "open" /\ Opened(events[j].key).io # "noOpen"})
    - Cardinality({j \in 1..n : events[j].ev = "close"})

(* C24: at no point of a Scan is more than one handle open; none is open   *)
(* when the callback is entered for a node, between two callbacks or when  *)
(* Scan has returned; and a close is of the file opened last.              *)
C24_HandleClosedWithinVisit ==
    /\ \A n \in 0..Len(events) : Held(n) \in {0, 1}
    /\ \A j \in 1..Len(events) :
          /\ events[j].ev = "visit" => Held(j - 1) = 0
          /\ events[j].ev = "close" =>
                \E i \in 1..(j - 1) :
                   /\ events[i].ev = "open" /\ events[i].key = events[j].key
                   /\ \A h \in (i + 1)..(j - 1) : events[h].ev \notin {"visit", "open", "close"}
    /\ pc \in {"walk", "done"} => Held(Len(events)) = 0
    /\ pc = "finish" => Held(Len(events)) = IF cur.handle THEN 1 ELSE 0

(* A scan that has closed a file whose read failed, which it appended, and *)
(* a binary file it left out.                                              *)
C24_Witness ==
    /\ pc = "done"
    /\ \E a, b \in 1..Len(events) :
          /\ events[a].ev = "close" /\ events[b].ev = "close"
          /\ fs[events[a].key].io = "noRead" /\ events[a].key \in Emitted
          /\ Suppressed(events[b].key) /\ events[b].key \notin Emitted

----------------------------------------------------------------------------
(* C27: a Scan called with a context that had already fired, on a root     *)
(* that is missing or no directory, returns the root's validation failure  *)
(* and never the context's error: not-found or the stat failure when the   *)
(* resolved root names nothing, not-a-directory when it names a file; and  *)
(* the callback that polls the context is never entered.                   *)
C27_RootErrorBeforeCancellation ==
    (pc = "done" /\ Fired /\ ~RootIsDir) =>
        /\ result.err \notin {"nil", "Canceled", "DeadlineExceeded"}
        /\ NamedBy(Abs(tc.rootPath)) = {} => result.err \in {"RootNotFound", "RootStatError"}
        /\ (\E k \in NamedBy(Abs(tc.rootPath)) : ~IsDir(k) /\ fs[k].io # "noStat")
              => result.err = "RootNotADirectory"
        /\ events = << >>
        /\ werr = "nil"

(* A cancelled Scan of a root that is a file. *)
C27_Witness ==
    /\ pc = "done"
    /\ ctxAtCall = "Canceled"
    /\ result.err = "RootNotADirectory"

----------------------------------------------------------------------------
(* C28: the context is looked at only where a node visit starts.  A Scan   *)
(* that returns without error after the signal fired returns the complete  *)
(* sequence; a walk that ended without error returns without error         *)
(* whatever the context says by then; the walk takes the context's error   *)
(* only in a step that enters a visit; and once the signal has fired no    *)
(* further file is taken up for classification and the sequence grows only *)
(* by the file already in flight.                                          *)
C28_CancellationOnlyAtVisitStart ==
    /\ [](Succeeded /\ ctx # "live" => Emitted = Expected)
    /\ [][/\ (pc = "walk" /\ pc' = "done" /\ werr = "nil") => result'.err = "nil"
          /\ (werr' # werr /\ werr' \in {"Canceled", "DeadlineExceeded"}) =>
                /\ pc = "walk"
                /\ Len(events') = Len(events) + 1
                /\ events'[Len(events')].ev = "visit"
          /\ (ctx # "live" /\ pc # "done") =>
                /\ pc' # "classify"
                /\ entries' # entries =>
                      /\ pc = "finish"
                      /\ Len(entries') = Len(entries) + 1
                      /\ entries'[Len(entries')].Path = PathOf(cur.key)]_vars

(* The signal fired while the last file was in flight, and Scan returned   *)
(* that file and the ones before it.                                       *)
C28_Witness ==
    /\ Succeeded
    /\ ctxAtCall = "live"
    /\ ctx = "Canceled"
    /\ Len(result.entries) >= 2
    /\ ~result.entries[Len(result.entries)].IsDir

----------------------------------------------------------------------------
IsLink(k) == fs[k].type = "link"

VisitsOf(k) == Cardinality({j \in 1..Len(events) : events[j].ev = "visit" /\ events[j].key = k})

----------------------------------------------------------------------------
----------------------------------------------------------------------------
NotDir(e) == ~e.IsDir

(* The entries of the result that are no directories. *)
FileEntries == SelectSeq(result.entries, NotDir)

(* C23, as claimed: the report has one content section per entry that is   *)
(* no directory, in order; the section of an entry with ReadErr holds the  *)
(* error placeholder and the section of an entry with IsBinary the binary  *)
(* placeholder, neither the content of the file.                           *)
C23_SectionsFollowEntryFlags ==
    report.written =>
        /\ Len(report.sections) = Len(FileEntries)
        /\ \A i \in 1..Len(report.sections) :
              /\ report.sections[i].relPath = FileEntries[i].RelPath
              /\ FileEntries[i].ReadErr # "nil" => report.sections[i].kind = "error"
              /\ FileEntries[i].IsBinary => report.sections[i].kind = "binary"

(* C30, as claimed: for an entry whose file was not touched after the scan *)
(* and is readable, the section is the binary placeholder exactly when the *)
(* scanner set IsBinary, and the content of the file otherwise.            *)
C30_GeneratorAgreesWithScanner ==
    report.written =>
        /\ Len(report.sections) = Len(FileEntries)
        /\ \A i \in 1..Len(report.sections) :
              LET e == FileEntries[i]
                  k == KeyOf(e.Path)
                  n == Opened(k)
              IN (k \notin touched /\ n.type = "file" /\ n.io = "ok" /\ e.ReadErr = "nil") =>
                    /\ report.sections[i].kind = "binary" <=> e.IsBinary
                    /\ ~e.IsBinary =>
                          /\ report.sections[i].kind = "content"
                          /\ report.sections[i].content = Content(n.data)

----------------------------------------------------------------------------
(* C26, as claimed: no step changes the effective pattern list of a        *)
(* scanner that exists, be it the construction of another scanner or a     *)
(* change of the defaults, and the construction of a scanner leaves the    *)
(* default patterns as they are.                                           *)
C26_PatternListOwned ==
    [][/\ \A i \in 1..Len(mem.scanners) :
             ListOf(mem', mem.scanners[i]) = ListOf(mem, mem.scanners[i])
       /\ Len(mem'.scanners) > Len(mem.scanners) =>
             ListOf(mem', mem'.defaults) = ListOf(mem, mem.defaults)]_vars

----------------------------------------------------------------------------
(* What a call of Scan on the root, on scanner si, returns when no other   *)
(* call runs.                                                              *)
RECURSIVE Run(_)
Run(cs) == IF cs[1].pc = "done" THEN cs[1].result ELSE Run(CallStep(cs, 1))

RunAlone(root, si) == Run(<<CallInit(root, si)>>)

IsPrefix(a, b) == Len(a) <= Len(b) /\ SubSeq(b, 1, Len(a)) = a

(* C22: of two Scan calls that run side by side on different roots, on one *)
(* scanner or on two, each returns what it returns when run alone, and at  *)
(* every moment has collected a prefix of that; a step of one call changes *)
(* nothing of the other call, and no step changes a scanner or the default *)
(* patterns.                                                               *)
C22_ConcurrentScansIndependent ==
    /\ [](\A i \in 1..Len(calls) :
             LET alone == RunAlone(calls[i].root, calls[i].s) IN
             /\ calls[i].pc = "done" => calls[i].result = alone
             /\ alone.err = "nil" => IsPrefix(calls[i].entries, alone.entries))
    /\ [][/\ \A i, j \in 1..Len(calls) :
               (i # j /\ calls'[i] # calls[i]) => calls'[j] = calls[j]
          /\ scanner' = scanner
          /\ DefaultIgnorePatterns' = DefaultIgnorePatterns
          /\ mem' = mem]_vars

(* One call on a scanner has returned its entries while the other call on  *)
(* the same scanner is in the middle of a file, with entries of its own.   *)
C22_Witness ==
    /\ Len(calls) = 2
    /\ calls[1].s = calls[2].s
    /\ calls[1].pc = "done"
    /\ calls[1].result.entries # << >>
    /\ calls[2].pc = "finish"
    /\ calls[2].entries # << >>
    /\ calls[2].entries # calls[1].result.entries

====
